---- MODULE Spec2Model ----
(***************************************************************************)
(* Model of the chat backend in src/main.py: the four collections of the   *)
(* document store, the HTTP handlers that read and write them, and the     *)
(* ownership checks the handlers make (project -> chat -> message).        *)
(*                                                                         *)
(* Every handler is one atomic action, except login, whose lookup          *)
(* (find_one) and write (update_one / create_document) are two steps of a  *)
(* worker thread: FastAPI runs "def" handlers on a thread pool, so two     *)
(* login requests can interleave between those two store calls.            *)
(***************************************************************************)
EXTENDS Integers, Sequences, FiniteSets, TLC

VARIABLES
    dbAvailable,    \* database.db is not None (fixed at process start)
    user,           \* db["user"]: sequence of documents in insertion order
    project,        \* db["project"]
    chat,           \* db["chat"]
    message,        \* db["message"]
    inflight,       \* per worker thread: the login request it is handling
    firstId,        \* history: per email, the id the first completed login returned
    last            \* the response of the last handler step

vars == <<dbAvailable, user, project, chat, message, inflight, firstId, last>>

----------------------------------------------------------------------------
(* Bounds of the model *)

MaxUsers == 2
MaxProjects == 2
MaxChats == 1
MaxMessages == 2

Workers == {"w1", "w2"}

----------------------------------------------------------------------------
(* Identifiers.  An ObjectId is modelled by the collection whose insert    *)
(* minted it and its sequence number there; its string form is 24 hex      *)
(* digits.  bson's ObjectId(s) accepts both letter cases, str(oid) always  *)
(* gives the lower-case form, so parsing is not the inverse of printing.   *)

Oid(coll, n) == <<coll, n>>

NoOid == <<"none", 0>>

\* str(oid)
Str(oid) == [hex |-> oid, form |-> "lower"]

\* the same 24 hex digits written in upper case
Upper(oid) == [hex |-> oid, form |-> "upper"]

\* a string that is not 24 hex digits
BadId == [hex |-> NoOid, form |-> "bad"]

\* bson.ObjectId(s) succeeds
IsValidOid(s) == s.form \in {"lower", "upper"}

\* bson.ObjectId(s), for a valid s
ObjectId(s) == s.hex

----------------------------------------------------------------------------
(* Request inputs *)

LoginRequests ==
    { [name |-> "Ann", email |-> "a@x", avatar_url |-> "None"],
      [name |-> "Bob", email |-> "a@x", avatar_url |-> "pic"],
      [name |-> "Cyd", email |-> "c@x", avatar_url |-> "None"] }

Emails == { r.email : r \in LoginRequests }

UserIdArgs == { Str(Oid("user", 1)), Str(Oid("user", 2)) }

\* user_id is a free query string: the GET handlers are also called with one
\* that is no ObjectId
ReadUserIdArgs == UserIdArgs \cup {BadId}

ProjectIdArgs ==
    { Str(Oid("project", 1)), Upper(Oid("project", 1)), BadId }

ChatIdArgs ==
    { Str(Oid("chat", 1)), Upper(Oid("chat", 1)), BadId }

ProjectNames == {"Demo"}
Titles == {"General"}
Roles == {"user"}
Contents == {"hello"}
Prompts == {"hello"}

----------------------------------------------------------------------------
(* Document store *)

\* the i-th insert into a collection mints a fresh ObjectId
NewOid(coll, docs) == Oid(coll, Len(docs) + 1)

\* database.create_document(collection, data): insert, return str(inserted_id)
create_document(coll, docs, data) ==
    Append(docs, [_id |-> NewOid(coll, docs)] @@ data)

\* a document satisfies an equality filter such as {"email": req.email}
Matches(doc, filter) == \A k \in DOMAIN filter : doc[k] = filter[k]

\* database.get_documents(collection, filter): the matching documents
get_documents(docs, filter) == SelectSeq(docs, LAMBDA d : Matches(d, filter))

\* collection.find_one(filter): the first matching document, or None (<<>>)
find_one(docs, filter) ==
    LET m == SelectSeq(docs, LAMBDA d : Matches(d, filter))
    IN  IF m = <<>> THEN <<>> ELSE <<Head(m)>>

\* update_one with a $set that leaves avatar_url out
update_one_name_only(docs, id, name, avatar_url) ==
    [ i \in 1..Len(docs) |->
        IF docs[i]._id = id
        THEN [docs[i] EXCEPT !.name = name]
        ELSE docs[i] ]

\* collection.update_one({"_id": id}, {"$set": {name, avatar_url}})
update_one(docs, id, name, avatar_url) ==
    [ i \in 1..Len(docs) |->
        IF docs[i]._id = id
        THEN [docs[i] EXCEPT !.name = name, !.avatar_url = avatar_url]
        ELSE docs[i] ]

\* the "_id -> str" conversion loop of the list handlers
Serialize(docs) ==
    [ i \in 1..Len(docs) |-> [docs[i] EXCEPT !._id = Str(docs[i]._id)] ]

----------------------------------------------------------------------------
(* Responses *)

\* op: the handler; status: its outcome; calls: how many store calls it
\* issued; out: the values of the response body
Response(op, status, calls, out) ==
    [op |-> op, status |-> status, calls |-> calls, out |-> out]

Idle == [pc |-> "idle", req |-> <<>>, existing |-> <<>>]

Init ==
    /\ dbAvailable \in BOOLEAN
    /\ user = <<>>
    /\ project = <<>>
    /\ chat = <<>>
    /\ message = <<>>
    /\ inflight = [w \in Workers |-> Idle]
    /\ firstId = [e \in Emails |-> <<>>]
    /\ last = Response("start", "Ok", 0, <<>>)

----------------------------------------------------------------------------
(* POST /auth/login *)

\* lines 48-51: the db guard and the lookup by email
login_find(w, req) ==
    /\ inflight[w].pc = "idle"
    /\ UNCHANGED <<dbAvailable, user, project, chat, message, firstId>>
    /\ IF ~dbAvailable
       THEN /\ last' = Response("login", "Unavailable", 0, <<>>)
            /\ UNCHANGED inflight
       ELSE /\ inflight' = [inflight EXCEPT ![w] =
                   [pc |-> "found", req |-> <<req>>,
                    existing |-> find_one(user, [email |-> req.email])]]
            /\ last' = Response("login_find", "Pending", 1, <<>>)

\* lines 52-57: update the record found, or insert a new one
login_write(w) ==
    /\ inflight[w].pc = "found"
    /\ LET req == inflight[w].req[1]
           existing == inflight[w].existing
           user_id == IF existing # <<>> THEN Str(existing[1]._id)
                                         ELSE Str(NewOid("user", user))
       IN  /\ IF existing # <<>>
              THEN user' = update_one(user, existing[1]._id, req.name, req.avatar_url)
              ELSE /\ Len(user) < MaxUsers
                   /\ user' = create_document("user", user, req)
           /\ last' = Response("login", "Ok", 2, <<user_id>>)
           /\ firstId' = IF firstId[req.email] = <<>>
                         THEN [firstId EXCEPT ![req.email] = <<user_id>>]
                         ELSE firstId
    /\ inflight' = [inflight EXCEPT ![w] = Idle]
    /\ UNCHANGED <<dbAvailable, project, chat, message>>

----------------------------------------------------------------------------
(* POST /projects, GET /projects *)

create_project(user_id, name) ==
    /\ UNCHANGED <<dbAvailable, user, chat, message, inflight, firstId>>
    /\ IF ~dbAvailable
       THEN /\ last' = Response("create_project", "Unavailable", 0, <<>>)
            /\ UNCHANGED project
       ELSE /\ Len(project) < MaxProjects
            /\ project' = create_document("project", project,
                              [user_id |-> user_id, name |-> name, description |-> "None"])
            /\ last' = Response("create_project", "Ok", 1,
                                <<Str(NewOid("project", project))>>)

\* list_projects with an empty filter
list_projects_unfiltered(user_id) ==
    /\ UNCHANGED <<dbAvailable, user, project, chat, message, inflight, firstId>>
    /\ IF ~dbAvailable
       THEN last' = Response("list_projects", "Unavailable", 0, <<>>)
       ELSE last' = Response("list_projects", "Ok", 1,
                Serialize(get_documents(project, <<>>)))

list_projects(user_id) ==
    /\ UNCHANGED <<dbAvailable, user, project, chat, message, inflight, firstId>>
    /\ IF ~dbAvailable
       THEN last' = Response("list_projects", "Unavailable", 0, <<>>)
       ELSE last' = Response("list_projects", "Ok", 1,
                Serialize(get_documents(project, [user_id |-> user_id])))

----------------------------------------------------------------------------
(* POST /chats, GET /chats *)

\* the project lookup without the "user_id" key in its filter
FindProjectById(project_id, user_id) ==
    find_one(project, [_id |-> ObjectId(project_id)])

\* db["project"].find_one({"_id": ObjectId(project_id), "user_id": user_id})
FindOwnedProject(project_id, user_id) ==
    find_one(project, [_id |-> ObjectId(project_id), user_id |-> user_id])

create_chat(user_id, project_id, title) ==
    /\ UNCHANGED <<dbAvailable, user, project, message, inflight, firstId>>
    /\ IF ~dbAvailable
       THEN /\ last' = Response("create_chat", "Unavailable", 0, <<>>)
            /\ UNCHANGED chat
       ELSE IF ~IsValidOid(project_id)
       THEN \* ObjectId() raises bson.errors.InvalidId, which nothing catches
            /\ last' = Response("create_chat", "InternalError", 0, <<>>)
            /\ UNCHANGED chat
       ELSE IF FindOwnedProject(project_id, user_id) = <<>>
       THEN /\ last' = Response("create_chat", "NotFound", 1, <<>>)
            /\ UNCHANGED chat
       ELSE /\ Len(chat) < MaxChats
            /\ chat' = create_document("chat", chat,
                                       [project_id |-> project_id, title |-> title])
            /\ last' = Response("create_chat", "Ok", 2, <<Str(NewOid("chat", chat))>>)

\* list_chats without the "if not proj" rejection
list_chats_unguarded(project_id, user_id) ==
    /\ UNCHANGED <<dbAvailable, user, project, chat, message, inflight, firstId>>
    /\ IF ~dbAvailable
       THEN last' = Response("list_chats", "Unavailable", 0, <<>>)
       ELSE IF ~IsValidOid(project_id)
       THEN last' = Response("list_chats", "InternalError", 0, <<>>)
       ELSE last' = Response("list_chats", "Ok", 2,
                Serialize(get_documents(chat, [project_id |-> project_id])))

list_chats(project_id, user_id) ==
    /\ UNCHANGED <<dbAvailable, user, project, chat, message, inflight, firstId>>
    /\ IF ~dbAvailable
       THEN last' = Response("list_chats", "Unavailable", 0, <<>>)
       ELSE IF ~IsValidOid(project_id)
       THEN last' = Response("list_chats", "InternalError", 0, <<>>)
       ELSE IF FindOwnedProject(project_id, user_id) = <<>>
       THEN last' = Response("list_chats", "NotFound", 1, <<>>)
       ELSE last' = Response("list_chats", "Ok", 2,
                Serialize(get_documents(chat, [project_id |-> project_id])))

----------------------------------------------------------------------------
(* POST /messages, GET /messages *)

\* db["chat"].find_one({"_id": ObjectId(chat_id)})
FindChat(chat_id) == find_one(chat, [_id |-> ObjectId(chat_id)])

\* the checks without the project lookup
ChatAccessChatOnly(chat_id, user_id) ==
    IF ~IsValidOid(chat_id)
    THEN [status |-> "InternalError", calls |-> 0]
    ELSE IF FindChat(chat_id) = <<>>
    THEN [status |-> "NotFound", calls |-> 1]
    ELSE [status |-> "Ok", calls |-> 1]

\* the checks reporting 404 for a foreign project, as create_chat does
ChatAccessUniform404(chat_id, user_id) ==
    IF ~IsValidOid(chat_id)
    THEN [status |-> "InternalError", calls |-> 0]
    ELSE IF FindChat(chat_id) = <<>>
    THEN [status |-> "NotFound", calls |-> 1]
    ELSE IF ~IsValidOid(FindChat(chat_id)[1].project_id)
    THEN [status |-> "InternalError", calls |-> 1]
    ELSE IF FindOwnedProject(FindChat(chat_id)[1].project_id, user_id) = <<>>
    THEN [status |-> "NotFound", calls |-> 2]
    ELSE [status |-> "Ok", calls |-> 2]

\* The checks create_message and list_messages share (lines 130-135 and
\* 144-149): the status they fail with and the store calls issued by then,
\* or "Ok" when the chat exists and its project belongs to user_id.
ChatAccess(chat_id, user_id) ==
    IF ~IsValidOid(chat_id)
    THEN [status |-> "InternalError", calls |-> 0]
    ELSE IF FindChat(chat_id) = <<>>
    THEN [status |-> "NotFound", calls |-> 1]
    ELSE IF ~IsValidOid(FindChat(chat_id)[1].project_id)
    THEN [status |-> "InternalError", calls |-> 1]
    ELSE IF FindOwnedProject(FindChat(chat_id)[1].project_id, user_id) = <<>>
    THEN [status |-> "Forbidden", calls |-> 2]
    ELSE [status |-> "Ok", calls |-> 2]

create_message(user_id, chat_id, role, content) ==
    /\ UNCHANGED <<dbAvailable, user, project, chat, inflight, firstId>>
    /\ IF ~dbAvailable
       THEN /\ last' = Response("create_message", "Unavailable", 0, <<>>)
            /\ UNCHANGED message
       ELSE LET access == ChatAccess(chat_id, user_id)
            IN  IF access.status # "Ok"
                THEN /\ last' = Response("create_message", access.status,
                                         access.calls, <<>>)
                     /\ UNCHANGED message
                ELSE /\ Len(message) < MaxMessages
                     /\ message' = create_document("message", message,
                           [chat_id |-> chat_id, role |-> role, content |-> content])
                     /\ last' = Response("create_message", "Ok", access.calls + 1,
                                         <<Str(NewOid("message", message))>>)

list_messages(chat_id, user_id) ==
    /\ UNCHANGED <<dbAvailable, user, project, chat, message, inflight, firstId>>
    /\ IF ~dbAvailable
       THEN last' = Response("list_messages", "Unavailable", 0, <<>>)
       ELSE LET access == ChatAccess(chat_id, user_id)
            IN  IF access.status # "Ok"
                THEN last' = Response("list_messages", access.status, access.calls, <<>>)
                ELSE last' = Response("list_messages", "Ok", access.calls + 1,
                        Serialize(get_documents(message, [chat_id |-> chat_id])))

----------------------------------------------------------------------------
(* POST /assistant/complete *)

\* the reply without the blank after the colon
EchoNoBlank(prompt) == "Echo:" \o prompt

\* f"Echo: {req.prompt}"
Echo(prompt) == "Echo: " \o prompt

assistant_complete(user_id, chat_id, prompt) ==
    /\ UNCHANGED <<dbAvailable, user, project, chat, inflight, firstId>>
    /\ IF ~dbAvailable
       THEN /\ last' = Response("assistant_complete", "Unavailable", 0, <<>>)
            /\ UNCHANGED message
       ELSE /\ Len(message) + 2 <= MaxMessages
            /\ message' =
                 create_document("message",
                    create_document("message", message,
                       [chat_id |-> chat_id, role |-> "user", content |-> prompt]),
                    [chat_id |-> chat_id, role |-> "assistant", content |-> Echo(prompt)])
            /\ last' = Response("assistant_complete", "Ok", 2, <<Echo(prompt)>>)

----------------------------------------------------------------------------
(* Specifications.  login reads and writes only db["user"]; no other       *)
(* handler touches that collection, and login touches no other one.  The   *)
(* two groups of handlers are therefore also explored on their own.        *)

NextAuth ==
    \/ \E w \in Workers, req \in LoginRequests : login_find(w, req)
    \/ \E w \in Workers : login_write(w)

NextChain ==
    \/ \E u \in UserIdArgs, n \in ProjectNames : create_project(u, n)
    \/ \E u \in ReadUserIdArgs : list_projects(u)
    \/ \E u \in UserIdArgs, p \in ProjectIdArgs, t \in Titles : create_chat(u, p, t)
    \/ \E u \in ReadUserIdArgs, p \in ProjectIdArgs : list_chats(p, u)
    \/ \E u \in UserIdArgs, c \in ChatIdArgs, r \in Roles, x \in Contents :
          create_message(u, c, r, x)
    \/ \E u \in ReadUserIdArgs, c \in ChatIdArgs : list_messages(c, u)
    \/ \E u \in UserIdArgs, c \in ChatIdArgs, x \in Prompts :
          assistant_complete(u, c, x)

Next == NextAuth \/ NextChain

Spec == Init /\ [][Next]_vars

SpecAuth == Init /\ [][NextAuth]_vars

SpecChain == Init /\ [][NextChain]_vars

----------------------------------------------------------------------------
(* What the properties say about the store, stated on the collections      *)
(* themselves rather than through the handlers' lookups.                   *)

\* a chat whose _id is the ObjectId that the string c denotes
ChatExists(c) ==
    /\ IsValidOid(c)
    /\ \E i \in 1..Len(chat) : chat[i]._id = ObjectId(c)

\* a project whose _id is the ObjectId p denotes
ProjectExists(p) ==
    /\ IsValidOid(p)
    /\ \E i \in 1..Len(project) : project[i]._id = ObjectId(p)

\* the project p denotes exists and its user_id is u
ProjectOwnedBy(p, u) ==
    /\ IsValidOid(p)
    /\ \E i \in 1..Len(project) :
          project[i]._id = ObjectId(p) /\ project[i].user_id = u

\* the chat c denotes exists and its project is owned by u
ChainOwned(c, u) ==
    /\ IsValidOid(c)
    /\ \E i \in 1..Len(chat) :
          chat[i]._id = ObjectId(c) /\ ProjectOwnedBy(chat[i].project_id, u)

\* a stored document without its _id
Data(doc) == [ k \in DOMAIN doc \ {"_id"} |-> doc[k] ]

Range(seq) == { seq[i] : i \in 1..Len(seq) }

Ids(docs) == { d._id : d \in Range(docs) }

----------------------------------------------------------------------------
(* C1.  POST /messages with user_id u and chat_id c inserts a message      *)
(* record only if a chat with id c exists and that chat's project is owned *)
(* by u; if c is a well-formed id of no chat, the request fails with       *)
(* NotFound and the message collection is unchanged.                       *)
C1_MessageOnlyUnderOwnedChat ==
    [][ last'.op = "create_message" =>
        \A u \in UserIdArgs, c \in ChatIdArgs, r \in Roles, x \in Contents :
          create_message(u, c, r, x) =>
            /\ (message' # message => ChainOwned(c, u))
            /\ (dbAvailable /\ IsValidOid(c) /\ ~ChatExists(c) =>
                   last'.status = "NotFound" /\ message' = message)
            /\ (~IsValidOid(c) => message' = message) ]_vars

\* a message creation was refused with NotFound
C1_Witness ==
    /\ last.op = "create_message"
    /\ last.status = "NotFound"
    /\ message = <<>>

(* C2.  POST /assistant/complete with user_id u and chat_id c persists     *)
(* message records only if chat c exists and its project is owned by u;    *)
(* otherwise it fails with NotFound (missing chat) or Forbidden (foreign   *)
(* project) and writes no message record.                                  *)
C2_AssistantChecksOwnership ==
    [][ last'.op = "assistant_complete" =>
        \A u \in UserIdArgs, c \in ChatIdArgs, x \in Prompts :
          assistant_complete(u, c, x) =>
            /\ (message' # message => ChainOwned(c, u))
            /\ (dbAvailable /\ IsValidOid(c) /\ ~ChatExists(c) =>
                   last'.status = "NotFound" /\ message' = message)
            /\ (dbAvailable /\ ChatExists(c) /\ ~ChainOwned(c, u) =>
                   last'.status = "Forbidden" /\ message' = message) ]_vars

(* C3.  POST /chats with user_id u2 and the id of a project owned by a     *)
(* different user fails with NotFound or Forbidden and leaves the chat     *)
(* collection unchanged; a chat record is inserted only when the project   *)
(* exists and its user_id equals the requesting user_id.                   *)
C3_ChatOnlyUnderOwnProject ==
    [][ last'.op = "create_chat" =>
        \A u \in UserIdArgs, p \in ProjectIdArgs, t \in Titles :
          create_chat(u, p, t) =>
            /\ (chat' # chat => ProjectOwnedBy(p, u))
            /\ (dbAvailable /\ ProjectExists(p) /\ ~ProjectOwnedBy(p, u) =>
                   /\ last'.status \in {"NotFound", "Forbidden"}
                   /\ chat' = chat) ]_vars

\* a chat creation under somebody else's project was refused
C3_Witness ==
    /\ last.op = "create_chat"
    /\ last.status = "NotFound"
    /\ project # <<>>
    /\ chat = <<>>

(* C4.  GET /chats with project_id p and user_id u returns NotFound        *)
(* whenever p is a well-formed id of no project or of a project owned by   *)
(* another user; it never succeeds for a project the caller does not own.  *)
C4_ListChatsNotFound ==
    [][ last'.op = "list_chats" =>
        \A u \in ReadUserIdArgs, p \in ProjectIdArgs :
          list_chats(p, u) =>
            /\ (dbAvailable /\ IsValidOid(p) /\ ~ProjectOwnedBy(p, u) =>
                   last'.status = "NotFound")
            /\ (last'.status = "Ok" => ProjectOwnedBy(p, u)) ]_vars

\* a chat listing of an existing, foreign project was refused
C4_Witness ==
    /\ last.op = "list_chats"
    /\ last.status = "NotFound"
    /\ project # <<>>

C6_Rejected ==
    /\ last'.status = "InvalidId"
    /\ last'.calls = 0
    /\ UNCHANGED <<user, project, chat, message>>

C6_MalformedIdRejected ==
    [][ dbAvailable =>
        /\ \A u \in ReadUserIdArgs :
              list_projects(u) /\ ~IsValidOid(u) => C6_Rejected
        /\ \A u \in UserIdArgs, p \in ProjectIdArgs, t \in Titles :
              create_chat(u, p, t) /\ ~IsValidOid(p) => C6_Rejected
        /\ \A u \in ReadUserIdArgs, p \in ProjectIdArgs :
              list_chats(p, u) /\ (~IsValidOid(u) \/ ~IsValidOid(p)) => C6_Rejected
        /\ \A u \in UserIdArgs, c \in ChatIdArgs, r \in Roles, x \in Contents :
              create_message(u, c, r, x) /\ ~IsValidOid(c) => C6_Rejected
        /\ \A u \in ReadUserIdArgs, c \in ChatIdArgs :
              list_messages(c, u) /\ (~IsValidOid(u) \/ ~IsValidOid(c)) => C6_Rejected
        /\ \A u \in UserIdArgs, c \in ChatIdArgs, x \in Prompts :
              assistant_complete(u, c, x) /\ ~IsValidOid(c) => C6_Rejected ]_vars

C8_ListProjectsExact ==
    [][ /\ \A u \in ReadUserIdArgs :
              list_projects(u) /\ dbAvailable =>
                LET mine == { d \in Range(project) : d.user_id = u }
                IN  /\ last'.status = "Ok"
                    /\ Range(last'.out) =
                          { [d EXCEPT !._id = Str(d._id)] : d \in mine }
                    /\ Len(last'.out) = Cardinality(mine)
        /\ \A u \in UserIdArgs, n \in ProjectNames :
              create_project(u, n) /\ dbAvailable =>
                /\ Len(project') = Len(project) + 1
                /\ SubSeq(project', 1, Len(project)) = project
                /\ project'[Len(project')].user_id = u
                /\ project'[Len(project')]._id \notin Ids(project)
                /\ last'.out = <<Str(project'[Len(project')]._id)>> ]_vars

\* a listing that includes one project and leaves another user's out
C8_Witness ==
    /\ last.op = "list_projects"
    /\ last.status = "Ok"
    /\ Len(last.out) = 1
    /\ Len(project) = 2
    /\ project[1].user_id # project[2].user_id

(* C9.  In every reachable state at most one user record exists per email, *)
(* also when the lookups and writes of two logins interleave.              *)
C9_OneUserPerEmail ==
    \A i, j \in 1..Len(user) :
        user[i].email = user[j].email => i = j

(* C10.  GET /messages with a well-formed chat_id c and user_id u fails    *)
(* NotFound exactly when no chat with id c exists, fails Forbidden exactly *)
(* when chat c exists but its project is not owned by u, and otherwise     *)
(* succeeds, returning exactly the message records whose chat_id equals c. *)
C10_ListMessagesOutcomes ==
    [][ last'.op = "list_messages" =>
        \A u \in ReadUserIdArgs, c \in ChatIdArgs :
          list_messages(c, u) /\ dbAvailable /\ IsValidOid(c) =>
            LET mine == { d \in Range(message) : d.chat_id = c }
            IN  /\ (last'.status = "NotFound" <=> ~ChatExists(c))
                /\ (last'.status = "Forbidden" <=>
                       ChatExists(c) /\ ~ChainOwned(c, u))
                /\ (last'.status = "Ok" <=> ChainOwned(c, u))
                /\ last'.status = "Ok" =>
                       /\ Range(last'.out) =
                             { [d EXCEPT !._id = Str(d._id)] : d \in mine }
                       /\ Len(last'.out) = Cardinality(mine) ]_vars

\* a message listing was refused because the chat's project is foreign
C10_Witness ==
    /\ last.op = "list_messages"
    /\ last.status = "Forbidden"

====
